---- MODULE Spec2Model ----
(***************************************************************************)
(* Model of thermostat/__main__.py: the State holder, the WindowObject     *)
(* coordinate helper, the Window/Menu drawing tree, the Renderer and the   *)
(* main loop.                                                              *)
(*                                                                         *)
(* Floats are kept as integer tenths (1.0 is 10, 0.2 is 2).  A call made   *)
(* on the display driver or on the drawing surface is recorded as a        *)
(* record [op, args, via]: args are the values passed, via the arguments   *)
(* of the _calculate_coordinates call that produced the box.               *)
(***************************************************************************)
EXTENDS Integers, Sequences, FiniteSets

VARIABLES
    pc,          \* position of the __main__ block
    state,       \* the State object: _brightness, _power_saving_mode_enabled, led_colour
    _children,   \* Window._children, the class attribute (one list for the class)
    calls,       \* driver and drawing calls completed by the latest Renderer call
    result,      \* how the latest Renderer call ended: "None", "False", "raised", "-"
    fault,       \* where the exception of the latest Renderer call was raised ("none" if nowhere)
    initCalls,   \* number of Renderer.init() calls made by the main block
    renderCalls, \* number of Renderer.render() calls made by the main block (saturating)
    nWindows,    \* number of Window objects constructed so far
    regLog,      \* history: the add_child calls so far, as [window, child]
    atRender,    \* history: regLog as it was when the latest Window.render() began
    trace,       \* the child.render() calls made by the latest Window.render()
    rendered,    \* the Window whose render() ran last (0: none yet)
    outcome,     \* how the latest Window.render() ended: "returned", "raised", "-"
    fresh,       \* the Window built by the latest Renderer construction (0: none)
    got,         \* <<value>> read from State.brightness (<<>> before the read)
    kwargs,      \* arguments of a _calculate_coordinates call, with which of them are passed
    coords       \* the box returned by that call (<<>> before the call)

vars == <<pc, state, _children, calls, result, fault, initCalls, renderCalls,
          nWindows, regLog, atRender, trace, rendered, outcome, fresh, got, kwargs, coords>>

(***************************************************************************)
(* Bounds of the model.                                                    *)
(***************************************************************************)
MaxBrightness == 10
MaxMargin == 3
MaxHeight == 3
MaxOffset == 3
MaxTicks == 3
MaxWindows == 2
MaxObjects == 2
MaxChildren == 2

(***************************************************************************)
(* Program constants.                                                      *)
(***************************************************************************)
DefaultBrightness == 10
PowerSavingBrightness == 2
MIN_HEIGHT == 0
MAX_HEIGHT == 240
MIN_WIDTH == 0
MAX_WIDTH == 320
DefaultMargin == 0
NotGiven == -1
BackgroundMargin == 10
BorderWidth == 10
MenuMargin == 30
MenuHeight == 20
MenuStep == 20
SelectedIndex == 1
NumItems == 3

DefaultLed == <<0, 0, 0>>
BorderColour == <<180, 0, 0>>
PanelColour == <<50, 50, 50>>
HighlightColour == <<255, 255, 255>>
NeutralColour == <<175, 175, 175>>

Call(op, args, via) == [op |-> op, args |-> args, via |-> via]

Prefix(s, n) == SubSeq(s, 1, n)

(***************************************************************************)
(* State                                                                   *)
(***************************************************************************)
Brightnesses == 0..MaxBrightness
LedColours == {DefaultLed, <<10, 0, 0>>, <<10, 10, 10>>}
States == [_brightness : Brightnesses,
           _power_saving_mode_enabled : BOOLEAN,
           led_colour : LedColours]

\* A power-saving override that is never applied.
State_brightness_ignoring_flag(s) == s._brightness

\* The property State.brightness.
State_brightness(s) ==
    IF s._power_saving_mode_enabled THEN PowerSavingBrightness ELSE s._brightness

(***************************************************************************)
(* WindowObject._calculate_coordinates                                     *)
(***************************************************************************)
\* A helper whose fixed height forgets the margin already added to min_y.
_calculate_coordinates_height_from_top(margin, height, offset_y) ==
    LET min_y == MIN_HEIGHT + margin
        max_y == IF height # NotGiven THEN MIN_HEIGHT + height
                                      ELSE MAX_HEIGHT - margin
    IN  <<MIN_WIDTH + margin,
          IF offset_y # NotGiven THEN min_y + offset_y ELSE min_y,
          MAX_WIDTH - margin,
          IF offset_y # NotGiven THEN max_y + offset_y ELSE max_y>>

\* A helper whose offset moves the top edge only.
_calculate_coordinates_offset_top_only(margin, height, offset_y) ==
    LET min_y == MIN_HEIGHT + margin
        max_y == IF height # NotGiven THEN MIN_HEIGHT + margin + height
                                      ELSE MAX_HEIGHT - margin
    IN  <<MIN_WIDTH + margin,
          IF offset_y # NotGiven THEN min_y + offset_y ELSE min_y,
          MAX_WIDTH - margin,
          max_y>>

\* The box is returned in the order min_x, min_y, max_x, max_y.
_calculate_coordinates(margin, height, offset_y) ==
    LET c0 == [min_x |-> MIN_WIDTH + margin,
               min_y |-> MIN_HEIGHT + margin,
               max_x |-> MAX_WIDTH - margin,
               max_y |-> MAX_HEIGHT - margin]
        c1 == IF height # NotGiven
                THEN [c0 EXCEPT !.max_y = MIN_HEIGHT + margin + height]
                ELSE c0
        c2 == IF offset_y # NotGiven
                THEN [c1 EXCEPT !.min_y = c1.min_y + offset_y,
                                !.max_y = c1.max_y + offset_y]
                ELSE c1
    IN  <<c2.min_x, c2.min_y, c2.max_x, c2.max_y>>

\* The values the parameters take in a call: a parameter that is not passed
\* takes its default.
Bound(kw) == [margin   |-> IF kw.has_margin THEN kw.margin ELSE DefaultMargin,
              height   |-> IF kw.has_height THEN kw.height ELSE NotGiven,
              offset_y |-> IF kw.has_offset_y THEN kw.offset_y ELSE NotGiven]

CallCoordinates(kw) ==
    _calculate_coordinates(Bound(kw).margin, Bound(kw).height, Bound(kw).offset_y)

Margins == (-2..MaxMargin) \cup {BackgroundMargin, MenuMargin}
Heights == (-2..MaxHeight) \cup {MenuHeight}
Offsets == (-2..MaxOffset) \cup {MenuStep, 2 * MenuStep}

\* The calls: a parameter that is not passed is shown with its default.
Kwargs == {kw \in [margin : Margins, has_margin : BOOLEAN,
                   height : Heights, has_height : BOOLEAN,
                   offset_y : Offsets, has_offset_y : BOOLEAN] :
             /\ ~kw.has_margin => kw.margin = DefaultMargin
             /\ ~kw.has_height => kw.height = NotGiven
             /\ ~kw.has_offset_y => kw.offset_y = NotGiven}

(***************************************************************************)
(* Calls that may raise.  A call either completes and is recorded, or      *)
(* raises and cuts short everything that would have followed it.           *)
(***************************************************************************)
Try(call, raises) ==
    IF raises THEN [calls |-> <<>>, raised |-> TRUE]
              ELSE [calls |-> <<call>>, raised |-> FALSE]

Then(a, b) ==
    IF a.raised THEN a
                ELSE [calls |-> a.calls \o b.calls, raised |-> b.raised]

Rectangle(margin, height, offset_y, colour, extra) ==
    Call("rectangle",
         _calculate_coordinates(margin, height, offset_y) \o colour \o extra,
         <<margin, height, offset_y>>)

(***************************************************************************)
(* Window                                                                  *)
(***************************************************************************)
\* Window._render_background; failAt is the rectangle call that raises (0: none).
Window_render_background(failAt) ==
    Then(Try(Rectangle(DefaultMargin, NotGiven, NotGiven, BorderColour, <<BorderWidth>>),
             failAt = 1),
         Try(Rectangle(BackgroundMargin, NotGiven, NotGiven, PanelColour, <<>>),
             failAt = 2))

Window_init(failAt) == Window_render_background(failAt)

\* Window.add_child: self._children is the list of the class.
Window_add_child(list, child) == Append(list, child)

(***************************************************************************)
(* Menu                                                                    *)
(***************************************************************************)
\* A menu whose selected bar follows the offsets of the other bars.
Menu_bar_aligned(index) ==
    IF index = SelectedIndex
      THEN Rectangle(MenuMargin, MenuHeight, MenuStep * index, HighlightColour, <<>>)
      ELSE Rectangle(MenuMargin, MenuHeight, MenuStep * index, NeutralColour, <<>>)

\* The rectangle drawn for the item at index.
Menu_bar(index) ==
    IF index = SelectedIndex
      THEN Rectangle(MenuMargin, MenuHeight, NotGiven, HighlightColour, <<>>)
      ELSE Rectangle(MenuMargin, MenuHeight, MenuStep * index, NeutralColour, <<>>)

\* The loop of Menu.render from index on; done holds the rectangles drawn so far.
RECURSIVE Menu_loop(_, _, _)
Menu_loop(index, failBar, done) ==
    IF index >= NumItems THEN [calls |-> done, raised |-> FALSE]
    ELSE IF failBar = index + 1 THEN [calls |-> done, raised |-> TRUE]
    ELSE Menu_loop(index + 1, failBar, Append(done, Menu_bar(index)))

\* Menu.render; failBar is the rectangle call that raises (0: none).
Menu_render(failBar) == Menu_loop(0, failBar, <<>>)

(***************************************************************************)
(* Window.render                                                           *)
(***************************************************************************)
\* The loop of Window.render from child number i on; done holds the calls
\* completed so far and seen the children whose render() was invoked.
RECURSIVE Window_loop(_, _, _, _, _, _)
Window_loop(kids, i, failChild, failBar, done, seen) ==
    IF i > Len(kids)
      THEN [calls |-> done, trace |-> seen, raised |-> FALSE]
      ELSE IF i = failChild
        THEN [calls  |-> done \o Menu_render(failBar).calls,
              trace  |-> Append(seen, kids[i]),
              raised |-> TRUE]
        ELSE Window_loop(kids, i + 1, failChild, failBar,
                         done \o Menu_render(0).calls, Append(seen, kids[i]))

\* A paint pass that stops after the first child.
Window_render_first_only(kids, failChild, failBar) ==
    Window_loop(Prefix(kids, IF Len(kids) > 0 THEN 1 ELSE 0), 1, failChild, failBar, <<>>, <<>>)

\* Window.render over the list kids; child number failChild raises at its
\* rectangle call number failBar (failChild 0: no child raises).
Window_render(kids, failChild, failBar) ==
    Window_loop(kids, 1, failChild, failBar, <<>>, <<>>)

(***************************************************************************)
(* Renderer                                                                *)
(***************************************************************************)
InitFaults == {"none", "set_backlight", "set_led", "border", "panel", "init_display"}

Renderer_set_brightness(s, f) ==
    Then(Try(Call("set_backlight", <<State_brightness(s)>>, <<>>), f = "set_backlight"),
         Try(Call("set_led", s.led_colour, <<>>), f = "set_led"))

Flush(raises) == Try(Call("display", <<>>, <<>>), raises)

\* An init that paints and flushes before it applies the backlight and LED.
Renderer_init_paint_first(s, f) ==
    LET body == Then(Window_init(IF f = "border" THEN 1 ELSE IF f = "panel" THEN 2 ELSE 0),
                     Then(Flush(f = "init_display"),
                          Renderer_set_brightness(s, f)))
    IN  [calls |-> body.calls,
         ret |-> IF body.raised THEN "raised" ELSE "None"]

\* An init that swallows what its calls raise.
Renderer_init_swallowing(s, f) ==
    LET body == Then(Renderer_set_brightness(s, f),
                     Then(Window_init(IF f = "border" THEN 1 ELSE IF f = "panel" THEN 2 ELSE 0),
                          Flush(f = "init_display")))
    IN  [calls |-> body.calls,
         ret |-> IF body.raised THEN "False" ELSE "None"]

\* Renderer.init; f names the call that raises.  Nothing is caught.
Renderer_init(s, f) ==
    LET body == Then(Renderer_set_brightness(s, f),
                     Then(Window_init(IF f = "border" THEN 1 ELSE IF f = "panel" THEN 2 ELSE 0),
                          Flush(f = "init_display")))
    IN  [calls |-> body.calls,
         ret |-> IF body.raised THEN "raised" ELSE "None"]

\* A render that flushes the frame whether or not the paint pass raised.
Renderer_render_always_flush(kids, failChild, failBar, displayFails) ==
    LET w == Window_render(kids, failChild, failBar)
        f == Flush(displayFails)
    IN  [calls |-> w.calls \o f.calls,
         ret |-> IF w.raised \/ f.raised THEN "False" ELSE "None"]

\* Renderer.render: the try block holds the paint pass and the flush; the
\* handler returns False, the normal path returns None.
Renderer_render(kids, failChild, failBar, displayFails) ==
    LET body == Then(Window_render(kids, failChild, failBar), Flush(displayFails))
    IN  [calls |-> body.calls,
         ret |-> IF body.raised THEN "False" ELSE "None"]

\* Where the exception of a render call came from.
RenderFault(kids, failChild, failBar, displayFails) ==
    IF Window_render(kids, failChild, failBar).raised THEN "child"
    ELSE IF displayFails THEN "render_display"
    ELSE "none"

(***************************************************************************)
(* Values of the variables a specification does not use.                   *)
(***************************************************************************)
DefaultState == [_brightness |-> DefaultBrightness,
                 _power_saving_mode_enabled |-> FALSE,
                 led_colour |-> DefaultLed]
NoKwargs == [margin |-> DefaultMargin, has_margin |-> FALSE,
             height |-> NotGiven, has_height |-> FALSE,
             offset_y |-> NotGiven, has_offset_y |-> FALSE]

MainIdle == /\ pc = "off" /\ calls = <<>> /\ result = "-" /\ fault = "none"
            /\ initCalls = 0 /\ renderCalls = 0
WindowIdle == /\ nWindows = 0 /\ regLog = <<>> /\ atRender = <<>> /\ trace = <<>> /\ rendered = 0
              /\ outcome = "-" /\ fresh = 0
PureIdle == got = <<>> /\ kwargs = NoKwargs /\ coords = <<>>

mainVars == <<pc, calls, result, fault, initCalls, renderCalls>>
windowVars == <<nWindows, regLog, atRender, trace, rendered, outcome, fresh>>

(***************************************************************************)
(* SpecState: a State with any field values, and a read of its brightness. *)
(***************************************************************************)
InitState == /\ state \in States
             /\ _children = <<>>
             /\ MainIdle /\ WindowIdle /\ PureIdle

ReadBrightness ==
    /\ got = <<>>
    /\ got' = <<State_brightness(state)>>
    /\ UNCHANGED <<state, _children, mainVars, windowVars, kwargs, coords>>

NextState == ReadBrightness

SpecState == InitState /\ [][NextState]_vars

(***************************************************************************)
(* SpecCoords: one call of _calculate_coordinates with any arguments.      *)
(***************************************************************************)
InitCoords == /\ kwargs \in Kwargs
              /\ coords = <<>> /\ got = <<>>
              /\ state = DefaultState
              /\ _children = <<>>
              /\ MainIdle /\ WindowIdle

Calculate ==
    /\ coords = <<>>
    /\ coords' = CallCoordinates(kwargs)
    /\ UNCHANGED <<state, _children, mainVars, windowVars, got, kwargs>>

NextCoords == Calculate

SpecCoords == InitCoords /\ [][NextCoords]_vars

(***************************************************************************)
(* Construction.  Every Window shares the list of the class, so a          *)
(* Renderer construction appends its Menu to that one list.                *)
(***************************************************************************)
MenuOf(w) == MaxObjects + w

Registration(w, c) == [window |-> w, child |-> c]

\* Renderer.__init__: a new Window, and a new Menu added to it.
RendererConstruct ==
    /\ nWindows' = nWindows + 1
    /\ fresh' = nWindows + 1
    /\ _children' = Window_add_child(_children, MenuOf(nWindows + 1))
    /\ regLog' = Append(regLog, Registration(nWindows + 1, MenuOf(nWindows + 1)))

\* A loop that gives up after a render that reported failure.
AfterCall_stop_on_failure(ret, next) ==
    IF ret \in {"raised", "False"} THEN "terminated" ELSE next

\* Where the main block goes after a call: an exception that reaches it ends
\* the process, any returned value is ignored.
AfterCall(ret, next) == IF ret = "raised" THEN "terminated" ELSE next

(***************************************************************************)
(* Spec: the __main__ block.  The State handed to the Renderer may hold    *)
(* any field values; every driver and drawing call may raise.              *)
(***************************************************************************)
Init == /\ pc = "start"
        /\ state \in States
        /\ _children = <<>>
        /\ calls = <<>> /\ result = "-" /\ fault = "none"
        /\ initCalls = 0 /\ renderCalls = 0
        /\ WindowIdle /\ PureIdle

Main_construct ==
    /\ pc = "start"
    /\ \E fails \in BOOLEAN :
         IF fails
           THEN /\ pc' = "terminated"
                /\ result' = "raised"
                /\ fault' = "construct"
                /\ UNCHANGED <<_children, nWindows, regLog, fresh>>
           ELSE /\ pc' = "constructed"
                /\ RendererConstruct
                /\ UNCHANGED <<result, fault>>
    /\ UNCHANGED <<state, calls, initCalls, renderCalls, atRender, trace, rendered, outcome,
                   got, kwargs, coords>>

Main_init ==
    /\ pc = "constructed"
    /\ \E f \in InitFaults :
         \E r \in {Renderer_init(state, f)} :
             /\ calls' = r.calls
             /\ result' = r.ret
             /\ fault' = f
             /\ pc' = AfterCall(r.ret, "loop")
    /\ initCalls' = initCalls + 1
    /\ UNCHANGED <<state, _children, renderCalls, windowVars, got, kwargs, coords>>

Main_render ==
    /\ pc = "loop"
    /\ \E failChild \in 0..Len(_children), failBar \in 1..NumItems, displayFails \in BOOLEAN :
         \E r \in {Renderer_render(_children, failChild, failBar, displayFails)},
            w \in {Window_render(_children, failChild, failBar)} :
             /\ calls' = r.calls
             /\ result' = r.ret
             /\ fault' = RenderFault(_children, failChild, failBar, displayFails)
             /\ pc' = AfterCall(r.ret, "sleep")
             /\ trace' = w.trace
             /\ outcome' = IF w.raised THEN "raised" ELSE "returned"
    /\ rendered' = fresh
    /\ atRender' = regLog
    /\ renderCalls' = IF renderCalls < MaxTicks THEN renderCalls + 1 ELSE renderCalls
    /\ UNCHANGED <<state, _children, initCalls, nWindows, regLog, fresh, got, kwargs, coords>>

Main_sleep ==
    /\ pc = "sleep"
    /\ pc' = "loop"
    /\ UNCHANGED <<state, _children, calls, result, fault, initCalls, renderCalls,
                   windowVars, got, kwargs, coords>>

Next == Main_construct \/ Main_init \/ Main_render \/ Main_sleep

Spec == Init /\ [][Next]_vars

\* The process keeps running: a step of the main block that can be taken is taken.
FairSpec == /\ Spec
            /\ WF_vars(Main_construct) /\ WF_vars(Main_init)
            /\ WF_vars(Main_render) /\ WF_vars(Main_sleep)

(***************************************************************************)
(* SpecWindow: Windows and Renderers constructed in any number, children   *)
(* added through any Window, any Window rendered.                          *)
(***************************************************************************)
Objects == 1..MaxObjects

InitWindow == /\ state = DefaultState
              /\ _children = <<>>
              /\ MainIdle /\ WindowIdle /\ PureIdle

Window_new ==
    /\ nWindows < MaxWindows
    /\ nWindows' = nWindows + 1
    /\ fresh' = 0
    /\ UNCHANGED <<state, _children, mainVars, regLog, atRender, trace, rendered, outcome,
                   got, kwargs, coords>>

Renderer_new ==
    /\ nWindows < MaxWindows
    /\ Len(_children) < MaxChildren
    /\ RendererConstruct
    /\ UNCHANGED <<state, mainVars, atRender, trace, rendered, outcome, got, kwargs, coords>>

add_child(w, c) ==
    /\ Len(_children) < MaxChildren
    /\ _children' = Window_add_child(_children, c)
    /\ regLog' = Append(regLog, Registration(w, c))
    /\ fresh' = 0
    /\ UNCHANGED <<state, mainVars, nWindows, atRender, trace, rendered, outcome, got, kwargs, coords>>

render(w) ==
    /\ \E failChild \in 0..Len(_children), failBar \in 1..NumItems :
         \E r \in {Window_render(_children, failChild, failBar)} :
             /\ trace' = r.trace
             /\ outcome' = IF r.raised THEN "raised" ELSE "returned"
    /\ rendered' = w
    /\ atRender' = regLog
    /\ UNCHANGED <<state, _children, mainVars, nWindows, regLog, fresh, got, kwargs, coords>>

NextWindow ==
    \/ Window_new
    \/ Renderer_new
    \/ \E w \in 1..nWindows, c \in Objects : add_child(w, c)
    \/ \E w \in 1..nWindows : render(w)

SpecWindow == InitWindow /\ [][NextWindow]_vars

(***************************************************************************)
(* C3                                                                      *)
(***************************************************************************)
\* C3 as stated: State.brightness is 1.0 whenever power saving is disabled and
\* 0.2 whenever it is enabled, whatever _brightness holds.
C3_AsStated ==
    got # <<>> =>
        got[1] = IF state._power_saving_mode_enabled
                   THEN PowerSavingBrightness ELSE DefaultBrightness

\* C3 amended: State.brightness is 0.2 whenever power saving is enabled,
\* whatever _brightness holds, and is the value of _brightness (1.0 unless
\* the field was assigned) whenever power saving is disabled.
C3_Brightness ==
    got # <<>> =>
        /\ state._power_saving_mode_enabled => got[1] = PowerSavingBrightness
        /\ ~state._power_saving_mode_enabled => got[1] = state._brightness
        /\ (~state._power_saving_mode_enabled /\ state._brightness = DefaultBrightness)
                => got[1] = 10

C3_Witness ==
    /\ got # <<>>
    /\ state._power_saving_mode_enabled
    /\ state._brightness = 5
    /\ got[1] = 2

(***************************************************************************)
(* C4                                                                      *)
(***************************************************************************)
Width(box) == box[3] - box[1]
Tall(box) == box[4] - box[2]

\* C4 as stated: for all margin, height and offset_y the box is
\* display_width - 2*margin wide, and when a height is passed it is height tall.
C4_AsStated ==
    coords # <<>> =>
        /\ Width(coords) = MAX_WIDTH - 2 * Bound(kwargs).margin
        /\ kwargs.has_height => Tall(coords) = kwargs.height

\* C4 amended: for all margin, height and offset_y the box is
\* display_width - 2*margin wide, and when a height other than -1 is passed
\* it is height tall (-1 is read as no height).
C4_Box ==
    coords # <<>> =>
        /\ Width(coords) = MAX_WIDTH - 2 * Bound(kwargs).margin
        /\ (kwargs.has_height /\ kwargs.height # -1) => Tall(coords) = kwargs.height

C4_Witness ==
    /\ coords # <<>>
    /\ kwargs.has_margin /\ kwargs.margin = MenuMargin
    /\ kwargs.has_height /\ kwargs.height = MenuHeight
    /\ kwargs.has_offset_y /\ kwargs.offset_y = 2 * MenuStep
    /\ coords = <<30, 70, 290, 90>>

(***************************************************************************)
(* C5                                                                      *)
(***************************************************************************)
\* The same call without the offset.
WithoutOffset(kw) ==
    CallCoordinates([kw EXCEPT !.has_offset_y = FALSE, !.offset_y = NotGiven])

Shifted(box, base, dy) ==
    /\ box[1] = base[1]
    /\ box[3] = base[3]
    /\ box[2] = base[2] + dy
    /\ box[4] = base[4] + dy

\* C5 as stated: for every offset_y passed, min_y and max_y are those of the
\* call without offset plus offset_y, and min_x and max_x are unchanged.
C5_AsStated ==
    (coords # <<>> /\ kwargs.has_offset_y) =>
        Shifted(coords, WithoutOffset(kwargs), kwargs.offset_y)

\* C5 amended: for every offset_y other than -1 passed, min_y and max_y are
\* those of the call without offset plus offset_y, and min_x and max_x are
\* unchanged; an offset_y of -1 is read as no offset and shifts nothing.
C5_Offset ==
    (coords # <<>> /\ kwargs.has_offset_y) =>
        /\ kwargs.offset_y # -1 => Shifted(coords, WithoutOffset(kwargs), kwargs.offset_y)
        /\ kwargs.offset_y = -1 => coords = WithoutOffset(kwargs)

C5_Witness ==
    /\ coords # <<>>
    /\ kwargs.has_offset_y /\ kwargs.offset_y = MenuStep
    /\ kwargs.has_height /\ kwargs.height = 2
    /\ kwargs.has_margin /\ kwargs.margin = 3
    /\ coords = <<3, 23, 317, 25>>

(***************************************************************************)
(* C1                                                                      *)
(***************************************************************************)
Ops(log) == [i \in 1..Len(log) |-> log[i].op]
Count(log, op) == Cardinality({i \in 1..Len(log) : log[i].op = op})

\* C1: when a child's render() raises during Renderer.render(), the call
\* returns False instead of raising, and display() is not called in that call.
C1_ChildRaises ==
    fault = "child" =>
        /\ result = "False"
        /\ pc # "terminated"
        /\ Count(calls, "display") = 0

C1_Witness ==
    /\ fault = "child"
    /\ result = "False"
    /\ Ops(calls) = <<"rectangle", "rectangle">>
    /\ pc = "sleep"

(***************************************************************************)
(* C2                                                                      *)
(***************************************************************************)
ChildrenOf(log) == [i \in 1..Len(log) |-> log[i].child]

AddedThrough(log, w) ==
    LET OfWindow(e) == e.window = w
    IN  ChildrenOf(SelectSeq(log, OfWindow))

DuringInit == initCalls = 1 /\ renderCalls = 0

Before(log, op, i) == \E j \in 1..(i - 1) : log[j].op = op

\* C6: in one call of Renderer.init(), set_backlight and set_led are called at
\* most once, and exactly once when the call returns, with State.brightness and
\* State.led_colour; both calls precede every rectangle of the background and
\* the display() flush.
C6_InitOrder ==
    DuringInit =>
        /\ Count(calls, "set_backlight") <= 1
        /\ Count(calls, "set_led") <= 1
        /\ result = "None" =>
              /\ Count(calls, "set_backlight") = 1
              /\ Count(calls, "set_led") = 1
              /\ Count(calls, "rectangle") = 2
              /\ Count(calls, "display") = 1
        /\ \A i \in 1..Len(calls) :
              /\ calls[i].op = "set_backlight" =>
                    calls[i].args = <<IF state._power_saving_mode_enabled
                                        THEN 2 ELSE state._brightness>>
              /\ calls[i].op = "set_led" => calls[i].args = state.led_colour
              /\ calls[i].op \in {"rectangle", "display"} =>
                    /\ Before(calls, "set_backlight", i)
                    /\ Before(calls, "set_led", i)

C6_Witness ==
    /\ DuringInit
    /\ result = "None"
    /\ state._power_saving_mode_enabled
    /\ state.led_colour = <<10, 0, 0>>
    /\ Ops(calls) = <<"set_backlight", "set_led", "rectangle", "rectangle", "display">>
    /\ calls[1].args = <<2>>
    /\ calls[2].args = <<10, 0, 0>>

(***************************************************************************)
(* C7                                                                      *)
(***************************************************************************)
\* C7: a Menu.render() that returns has drawn exactly three rectangles, for
\* the indexes 0, 1, 2 in that order, each with margin 30 and height 20: bar 1
\* white with no offset, bars 0 and 2 grey at offsets 0 and 40.
C7_MenuBars ==
    (renderCalls > 0 /\ fault # "child") =>
        /\ Count(calls, "rectangle") = 3
        /\ Len(calls) >= 3
        /\ calls[1] = Call("rectangle", <<30, 30, 290, 50, 175, 175, 175>>, <<30, 20, 0>>)
        /\ calls[2] = Call("rectangle", <<30, 30, 290, 50, 255, 255, 255>>, <<30, 20, -1>>)
        /\ calls[3] = Call("rectangle", <<30, 70, 290, 90, 175, 175, 175>>, <<30, 20, 40>>)

C7_Witness ==
    /\ renderCalls > 0
    /\ fault = "none"
    /\ result = "None"
    /\ Ops(calls) = <<"rectangle", "rectangle", "rectangle", "display">>

(***************************************************************************)
(* C8                                                                      *)
(***************************************************************************)
\* C8 as stated: the paint pass inside Renderer.render() is the only error
\* boundary; an error raised anywhere else, the display() flush included, is
\* not caught and ends the process.
C8_AsStated ==
    fault \notin {"none", "child"} => (result = "raised" /\ pc = "terminated")

\* C8 amended: the try block of Renderer.render() is the only error boundary
\* and it holds the paint pass and the display() flush of render(); an error
\* raised anywhere else (construction, set_backlight, set_led, Window.init,
\* the display() flush of init()) is not caught and ends the process.
C8_Boundary ==
    /\ fault \in {"child", "render_display"} =>
          (result = "False" /\ pc # "terminated")
    /\ fault \in {"construct", "set_backlight", "set_led", "border", "panel", "init_display"} =>
          (result = "raised" /\ pc = "terminated")

C8_Witness ==
    /\ fault = "init_display"
    /\ result = "raised"
    /\ pc = "terminated"
    /\ Ops(calls) = <<"set_backlight", "set_led", "rectangle", "rectangle">>

(***************************************************************************)
(* C9                                                                      *)
(***************************************************************************)
\* C9: init() is called once, before any render(); once init() has returned,
\* render() is called again and again for ever, and a render() that failed
\* because a child raised does not stop the loop: the loop comes back to its
\* next render().
C9_MainLoop ==
    /\ [](/\ initCalls <= 1
          /\ (renderCalls > 0 \/ pc \in {"loop", "sleep"}) => (initCalls = 1 /\ fresh = 1))
    /\ [][initCalls' # initCalls => renderCalls = 0]_vars
    /\ (pc = "constructed") ~> (initCalls = 1)
    /\ (pc = "loop") ~> (pc = "sleep")
    /\ (renderCalls > 0 /\ result = "False") ~> (pc = "loop")

C9_Witness ==
    /\ fault = "child"
    /\ result = "False"
    /\ pc = "loop"
    /\ renderCalls = 2

(***************************************************************************)
(* C10                                                                     *)
(***************************************************************************)
\* C10: a Window's render() invokes only the children added through that
\* Window's add_child, and the Window of a Renderer just constructed has
\* exactly one child, its Menu.
C10_OwnChildren ==
    /\ (rendered # 0 /\ outcome = "returned") => trace = AddedThrough(atRender, rendered)
    /\ fresh # 0 => _children = <<MenuOf(fresh)>>

====
